---- MODULE Spec2Model ----
(***************************************************************************)
(* Model of the image tracking core of web-ar-screen:                      *)
(*   ImageTracker     (src/src/services/Uploader.ts, lines 241-429)        *)
(*   VocabularyTree   (src/unnamed/part_001)                               *)
(*   FeatureDetector  (src/src/tracking/FeatureDetector.js)                *)
(*   ARRenderer       (src/unnamed/part_002)                               *)
(*   WebARApp         (src/src/main.js), its target operations             *)
(* The native vision library (keypoint detection, k-nn matching, robust    *)
(* homography estimation) and the camera are the environment: what they    *)
(* return for a frame or an image is an input chosen from small sets.      *)
(* JavaScript runs one task at a time, so a step of the model is one       *)
(* synchronous run of a handler up to its next suspension point.           *)
(***************************************************************************)
EXTENDS Integers, Sequences, FiniteSets, TLC

\* ------------------------------------------------------------------ bounds
\* Number of processFrame bodies a behaviour runs: of the whole tracker, of
\* the frame loop taken alone, and of a single loop left running.
MaxTicks == 2
MaxLoopTicks == 4
MaxScenarioTicks == 60
\* Frame callbacks (pending with the host or suspended in an await) at once.
MaxLoops == 2

\* ------------------------------------------------------------ value spaces
\* null where a string (an id, a callback) is expected, and where an object is.
NULL == "null"
NullObject == [null |-> TRUE]

\* Target ids the application registers.
Ids == {"tA", "tB"}
\* Callbacks handed to start().
Callbacks == {"cb1", "cb2"}

\* A descriptor is a row of DescCols bytes; a FeatureSet is modelled by its
\* descriptor rows (row i belongs to keypoint i).
FeatureSets ==
  { << >>,
    << <<0>>, <<1>> >>,
    << <<254>>, <<255>> >>,
    << <<0>>, <<255>>, <<15>> >> }

\* Frame descriptor matrices handed to VocabularyTree.query.
QueryFrames ==
  { << >>,
    << <<0>>, <<1>> >>,
    << <<255>> >>,
    << <<0>>, <<255>> >> }

\* The feature sets of the whole-tracker specification.
SmallFeatureSets == { << >>, << <<0>>, <<1>> >> }

\* Feature counts of a camera frame.
FrameCounts == {0, 24}

\* The configurations the tracker is constructed with: the defaults of CONFIG
\* with a short detection interval and a small codebook.
DefaultFeatures == [detector |-> "BRISK", maxFeaturesPerFrame |-> 1000]
DefaultTracking == [detectionInterval |-> 2, minMatches |-> 12]
DefaultVocabulary == [size |-> 2, topCandidates |-> 3]
InitConfigs ==
  { [features |-> DefaultFeatures, tracking |-> DefaultTracking,
     vocabulary |-> DefaultVocabulary] }

\* Patches handed to updateConfig: each names whole top-level groups; a field
\* the patch's group does not carry reads as undefined afterwards.
ConfigPatches ==
  { [tracking |-> [detectionInterval |-> 1, minMatches |-> 12]],
    [tracking |-> [detectionInterval |-> 3, minMatches |-> 4]],
    [tracking |-> [minMatches |-> 11]] }

\* Reading a field of a config group: a number, or undefined, which every
\* arithmetic use turns into NaN; the model reads 0 where the code's
\* comparison with NaN and with 0 come out the same.
HasField(group, field) == field \in DOMAIN group

\* ------------------------------------------------------------- sequences
RECURSIVE SumSeq(_)
SumSeq(s) == IF s = << >> THEN 0 ELSE Head(s) + SumSeq(Tail(s))

RECURSIVE Flatten(_)
Flatten(ss) == IF ss = << >> THEN << >> ELSE Head(ss) \o Flatten(Tail(ss))

Min2(a, b) == IF a < b THEN a ELSE b

\* The sequence s with its elements computed once.
Materialize(s) == s \o << >>

\* Index of the entry with the given id in an insertion-ordered map, 0 if none.
IndexOf(m, id) ==
  IF \E i \in 1..Len(m) : m[i].id = id
  THEN CHOOSE i \in 1..Len(m) : m[i].id = id
  ELSE 0

MapHas(m, id) == IndexOf(m, id) # 0
MapKeys(m) == { m[i].id : i \in 1..Len(m) }

\* Map.prototype.set: an existing key keeps its place, a new key goes last.
MapSet(m, entry) ==
  IF MapHas(m, entry.id)
  THEN [m EXCEPT ![IndexOf(m, entry.id)] = entry]
  ELSE Append(m, entry)

\* Map.prototype.delete.
MapDelete(m, id) == SelectSeq(m, LAMBDA e : e.id # id)

\* ------------------------------------------------------- VocabularyTree
\* Number of clustering passes.
KMeansIterations == 10

\* a ^ b on non-negative integers.
RECURSIVE Xor(_, _)
Xor(a, b) ==
  IF a = 0 /\ b = 0 THEN 0
  ELSE (((a % 2) + (b % 2)) % 2) + 2 * Xor(a \div 2, b \div 2)

\* popcount: the number of set bits.
RECURSIVE popcount(_)
popcount(n) == IF n = 0 THEN 0 ELSE (n % 2) + popcount(n \div 2)

\* hammingDistance: the sum over the bytes of popcount(a[i] ^ b[i]).
hammingDistance(a, b) ==
  SumSeq([i \in 1..Len(a) |-> popcount(Xor(a[i], b[i]))])

\* findNearestCluster: the first cluster at minimal distance (the code's
\* index 0 is index 1 here; with no cluster the code's answer stays 0).
FirstMinimum(dist) ==
  CHOOSE i \in 1..Len(dist) :
    /\ \A j \in 1..Len(dist) : dist[i] <= dist[j]
    /\ \A j \in 1..(i - 1) : dist[j] > dist[i]

findNearestCluster(descriptor, clusters) ==
  IF clusters = << >> THEN 1
  ELSE FirstMinimum(Materialize([i \in 1..Len(clusters) |->
                                   hammingDistance(descriptor, clusters[i])]))

\* Math.round(v / n) for v >= 0, n > 0: halves round up.
RoundDiv(v, n) == (2 * v + n) \div (2 * n)

\* computeMean: per byte, the rounded arithmetic mean of the members.
computeMean(descriptors) ==
  Materialize(
    [c \in 1..Len(descriptors[1]) |->
       RoundDiv(SumSeq([i \in 1..Len(descriptors) |-> descriptors[i][c]]),
                Len(descriptors))])

\* One pass of the loop body of kmeansClustering: all assignments are taken
\* against the centers the pass starts with, then each center with members
\* is replaced by their mean.
\* descriptors.filter((_, idx) => assignments[idx] === i)
RECURSIVE Assigned(_, _, _)
Assigned(descriptors, assignments, i) ==
  IF descriptors = << >> THEN << >>
  ELSE (IF Head(assignments) = i THEN <<Head(descriptors)>> ELSE << >>)
       \o Assigned(Tail(descriptors), Tail(assignments), i)

UpdateCluster(cluster, assigned) ==
  IF Len(assigned) > 0 THEN computeMean(assigned) ELSE cluster

UpdateClusters(descriptors, clusters, assignments) ==
  Materialize([i \in 1..Len(clusters) |->
                 UpdateCluster(clusters[i], Assigned(descriptors, assignments, i))])

KMeansPass(descriptors, clusters) ==
  UpdateClusters(descriptors, clusters,
                 Materialize([d \in 1..Len(descriptors) |->
                                findNearestCluster(descriptors[d], clusters)]))

\* The passes left to run. A pass is a function of the centers alone, so
\* once a pass returns the centers it was given, every later pass does too.
RECURSIVE KMeansRepeat(_, _, _)
KMeansAfter(descriptors, clusters, next, iter) ==
  IF next = clusters THEN clusters
  ELSE KMeansRepeat(descriptors, next, iter - 1)

KMeansRepeat(descriptors, clusters, iter) ==
  IF iter = 0 THEN clusters
  ELSE KMeansAfter(descriptors, clusters, KMeansPass(descriptors, clusters), iter)

\* kmeansClustering: centers start as the first min(k, pool) descriptors.
kmeansClustering(descriptors, k) ==
  KMeansRepeat(descriptors,
               SubSeq(descriptors, 1, Min2(k, Len(descriptors))),
               KMeansIterations)

\* A bag of words maps the words that occur to their counts.
BowGet(bow, word) == IF word \in DOMAIN bow THEN bow[word] ELSE 0

\* computeBagOfWords: each row counts for its nearest word.
CountWords(words) ==
  [w \in { words[i] : i \in 1..Len(words) } |->
     Cardinality({ i \in 1..Len(words) : words[i] = w })]

computeBagOfWords(descriptors, vocab) ==
  CountWords(Materialize([i \in 1..Len(descriptors) |->
                            findNearestCluster(descriptors[i], vocab)]))

\* computeIDF: N is the number of entries of targetFeatures; a word of some
\* entry gets ln(N / df), kept here as the pair <<N, df>>; a word of no
\* entry keeps the value it had.
computeIDF(tf, oldIdf) ==
  LET N == Len(tf)
      words == UNION { DOMAIN tf[i].bow : i \in 1..Len(tf) }
      df(w) == Cardinality({ i \in 1..Len(tf) : w \in DOMAIN tf[i].bow })
  IN  [w \in (DOMAIN oldIdf) \cup words |->
         IF w \in words THEN <<N, df(w)>> ELSE oldIdf[w]]

\* Variant: only the target registered last gets its bag of words.
SetBowsOfLast(tf, targetList, vocab) ==
  MapSet(tf, [id |-> targetList[Len(targetList)].id,
              bow |-> computeBagOfWords(targetList[Len(targetList)].features,
                                        vocab)])

\* targets.forEach(... targetFeatures.set(target.id, bow) ...)
RECURSIVE SetBows(_, _, _)
SetBows(tf, targetList, vocab) ==
  IF targetList = << >> THEN tf
  ELSE SetBows(
         MapSet(tf, [id |-> Head(targetList).id,
                     bow |-> computeBagOfWords(Head(targetList).features, vocab)]),
         Tail(targetList), vocab)

\* build(targets) on the index idx = [vocabulary, targetFeatures, idf]: the
\* pool of all rows; nothing more when it is empty; else the codebook, then a
\* bag of words per target passed, then the IDF values.
BuildIdf(idx, vocab, tf) ==
  [vocabulary |-> vocab, targetFeatures |-> tf, idf |-> computeIDF(tf, idx.idf)]

BuildIndex(idx, targetList, vocab) ==
  BuildIdf(idx, vocab, SetBows(idx.targetFeatures, targetList, vocab))

BuildFrom(idx, targetList, allDescriptors, size) ==
  IF Len(allDescriptors) = 0 THEN idx
  ELSE BuildIndex(idx, targetList, kmeansClustering(allDescriptors, size))

build(idx, targetList, size) ==
  BuildFrom(idx, targetList,
            Flatten([i \in 1..Len(targetList) |-> targetList[i].features]),
            size)

\* 1000 * ln(n / c), rounded, for the ratios that occur with up to four
\* index entries.
LnMilli(n, c) ==
  CASE n = c -> 0
    [] n = 2 * c -> 693
    [] n = 3 * c -> 1099
    [] n = 4 * c -> 1386
    [] 2 * n = 3 * c -> 405
    [] 3 * n = 4 * c -> 288

\* Variant: every word weighs nothing.
IdfGetZero(idf, word) == 0

\* this.idf.get(word) || 0
IdfGet(idf, word) ==
  IF word \in DOMAIN idf THEN LnMilli(idf[word][1], idf[word][2]) ELSE 0

\* The score of one target in query, times queryDescriptors.rows (the same
\* positive factor for every target of one query).
QueryScore(queryBow, targetBow, idf) ==
  LET ws == { w \in DOMAIN queryBow : BowGet(targetBow, w) > 0 }
      term(w) == (queryBow[w] * IdfGet(idf, w)) * (targetBow[w] * IdfGet(idf, w))
      RECURSIVE Sum(_)
      Sum(S) == IF S = {} THEN 0
                ELSE LET w == CHOOSE x \in S : TRUE IN term(w) + Sum(S \ {w})
  IN  Sum(ws)

\* Variant: the scores are left in index order.
SortKeepsOrder(scores) == scores

\* scores.sort((a, b) => b.score - a.score): descending and stable.
RECURSIVE SortByScore(_)
SortByScore(scores) ==
  IF scores = << >> THEN << >>
  ELSE LET rest == SortByScore(SubSeq(scores, 1, Len(scores) - 1))
           last == scores[Len(scores)]
           before == SelectSeq(rest, LAMBDA s : s.score >= last.score)
           after == SelectSeq(rest, LAMBDA s : s.score < last.score)
       IN  before \o <<last>> \o after

\* query(queryDescriptors): the ids of the topCandidates best entries.
query(idx, queryDescriptors, topCandidates) ==
  IF Len(idx.vocabulary) = 0 THEN << >>
  ELSE
    LET queryBow == computeBagOfWords(queryDescriptors, idx.vocabulary)
        scores == Materialize(
                    [i \in 1..Len(idx.targetFeatures) |->
                       [targetId |-> idx.targetFeatures[i].id,
                        score |-> QueryScore(queryBow, idx.targetFeatures[i].bow,
                                             idx.idf)]])
        sorted == SortByScore(scores)
    IN  Materialize(
          [i \in 1..Min2(topCandidates, Len(sorted)) |-> sorted[i].targetId])

\* ------------------------------------------------------ FeatureDetector
\* What the camera and the native library give for one sampled frame:
\* capturing the frame or extracting its features may fault; otherwise the
\* frame has count features and, for each target, the matcher's number of
\* good matches, whether findHomography gives a matrix that passes
\* validateHomography, and whether the corners could be computed.
MatchInfos ==
  { [good |-> 11, H |-> TRUE, corners |-> TRUE],
    [good |-> 12, H |-> TRUE, corners |-> TRUE],
    [good |-> 12, H |-> FALSE, corners |-> TRUE],
    [good |-> 12, H |-> TRUE, corners |-> FALSE],
    [good |-> 24, H |-> TRUE, corners |-> TRUE] }
FramesOver(matchInfos) ==
  { [capture |-> "fault"], [capture |-> "ok", extract |-> "fault"] }
  \cup { [capture |-> "ok", extract |-> "ok", count |-> 0] }
  \cup { [capture |-> "ok", extract |-> "ok", count |-> c, match |-> m] :
           c \in FrameCounts \ {0}, m \in [Ids -> matchInfos] }

Frames == FramesOver(MatchInfos)

\* The frames of the whole-tracker specification.
SmallFrames ==
  FramesOver({ [good |-> 11, H |-> TRUE, corners |-> TRUE],
               [good |-> 12, H |-> TRUE, corners |-> TRUE],
               [good |-> 24, H |-> TRUE, corners |-> TRUE] })

\* goodMatches.length < trackingConfig.minMatches; false when minMatches is
\* undefined (NaN compares false).
BelowMinMatches(goodMatches, trackingConfig) ==
  /\ HasField(trackingConfig, "minMatches")
  /\ goodMatches < trackingConfig.minMatches

\* computeHomography: null below minMatches or when the estimate is empty or
\* invalid, else the matrix.
computeHomography(goodMatches, trackingConfig, hOk) ==
  IF BelowMinMatches(goodMatches, trackingConfig) THEN NULL
  ELSE IF hOk THEN "H" ELSE NULL

Failure(reason) == [success |-> FALSE, reason |-> reason]

\* Variant: a candidate that equals the best score replaces the one kept.
IsBetterOrEqual(good, count, maxScore) ==
  good * maxScore[2] >= maxScore[1] * count

\* score > maxScore, with score = good / count and maxScore a fraction
\* <<numerator, denominator>>.
IsBetter(good, count, maxScore) ==
  good * maxScore[2] > maxScore[1] * count

\* The candidate loop of detect: best is the detection kept so far, maxScore
\* its score as a fraction <<numerator, denominator>>.
RECURSIVE DetectLoop(_, _, _, _, _)
DetectLoop(candidates, frame, trackingConfig, best, maxScore) ==
  IF candidates = << >> THEN best
  ELSE
    LET target == Head(candidates)
        rest == Tail(candidates)
        info == frame.match[target.id]
        H == computeHomography(info.good, trackingConfig, info.H)
        count == Len(target.features)
        better == IsBetter(info.good, count, maxScore)
    IN  IF Len(target.features) = 0
        THEN DetectLoop(rest, frame, trackingConfig, best, maxScore)
        ELSE IF H # NULL /\ info.corners /\ better
        THEN DetectLoop(rest, frame, trackingConfig,
                        [success |-> TRUE, targetId |-> target.id,
                         matches |-> info.good,
                         score |-> <<info.good, count>>],
                        <<info.good, count>>)
        ELSE DetectLoop(rest, frame, trackingConfig, best, maxScore)

\* getCandidateTargets: without a vocabularyQuery (no caller of the repository
\* sets one) or without frame descriptors, every target handed to detect is a
\* candidate; with one, the candidates are the ids query returns, which
\* carry no features, so detect skips each of them.
getCandidateTargets(vocabularyQuery, frame, allTargets) ==
  IF vocabularyQuery = NULL \/ frame.count = 0 THEN allTargets
  ELSE << >>

\* detect(frameMat, targets)
detect(frame, targetList, trackingConfig) ==
  IF frame.extract = "fault" THEN Failure("error")
  ELSE IF frame.count = 0 THEN Failure("No frame features")
  ELSE LET best == DetectLoop(getCandidateTargets(NULL, frame, targetList),
                              frame, trackingConfig, NullObject, <<0, 1>>)
       IN  IF best # NullObject THEN best ELSE Failure("No valid detection")

\* ------------------------------------------- FeatureDetector, extraction
\* What detectAndCompute found in an image: keypoint i, named by its place pt,
\* has a response and the descriptor of row i.
\* Variant: the responses are left in detection order.
ResponsesKeepOrder(responses) == responses

\* responses.sort((a, b) => b.response - a.response): descending and stable.
RECURSIVE SortByResponse(_)
SortByResponse(responses) ==
  IF responses = << >> THEN << >>
  ELSE LET rest == SortByResponse(SubSeq(responses, 1, Len(responses) - 1))
           last == responses[Len(responses)]
           before == SelectSeq(rest, LAMBDA r : r.response >= last.response)
           after == SelectSeq(rest, LAMBDA r : r.response < last.response)
       IN  before \o <<last>> \o after

\* indices.sort((a, b) => a - b)
RECURSIVE SortAscending(_)
SortAscending(indices) ==
  IF indices = << >> THEN << >>
  ELSE LET rest == SortAscending(SubSeq(indices, 1, Len(indices) - 1))
           last == indices[Len(indices)]
       IN  SelectSeq(rest, LAMBDA i : i <= last) \o <<last>>
           \o SelectSeq(rest, LAMBDA i : i > last)

\* limitFeatures past its count <= maxFeatures return: the maxFeatures best
\* responses, kept in detection order (the code's index i is i + 1 here).
TopIndices(keypoints, maxFeatures) ==
  LET responses == SortByResponse(Materialize(
                     [i \in 1..Len(keypoints) |->
                        [index |-> i, response |-> keypoints[i].response]]))
      top == SubSeq(responses, 1, maxFeatures)
  IN  SortAscending(Materialize([i \in 1..Len(top) |-> top[i].index]))

limitFeatures(keypoints, descriptors, maxFeatures) ==
  IF Len(keypoints) <= maxFeatures
  THEN [keypoints |-> keypoints, descriptors |-> descriptors,
        count |-> Len(keypoints)]
  ELSE LET topIndices == TopIndices(keypoints, maxFeatures)
       IN  [keypoints |-> [i \in 1..maxFeatures |-> keypoints[topIndices[i]]],
            descriptors |-> [i \in 1..maxFeatures |-> descriptors[topIndices[i]]],
            count |-> maxFeatures]

\* extractFeatures past detectAndCompute: limited when the keypoints exceed
\* maxFeaturesPerFrame (never when that tunable is undefined).
extractFeatures(keypoints, descriptors, featuresConfig) ==
  IF /\ HasField(featuresConfig, "maxFeaturesPerFrame")
     /\ Len(keypoints) > featuresConfig.maxFeaturesPerFrame
  THEN limitFeatures(keypoints, descriptors, featuresConfig.maxFeaturesPerFrame)
  ELSE [keypoints |-> keypoints, descriptors |-> descriptors,
        count |-> Len(keypoints)]

\* ------------------------------------------- FeatureDetector, native side
\* The native objects a call leaves allocated without handing them back, by
\* the name of the variable that held them. A frame from the canvas has four
\* channels, so extractFeatures allocates a grayscale image; the fault of an
\* extraction is detectAndCompute throwing.
extractFeaturesLive(frame) ==
  IF frame.extract = "fault" THEN <<"gray", "mask">> ELSE <<"mask">>

\* matchFeatures: the vector it returns is released by detect; the one
\* allocated before knnMatch throws is not.
matchFeaturesLive(info) ==
  IF info.fault = "knnMatch" THEN <<"matches">> ELSE << >>

\* computeHomography: srcMat and dstMat are released after findHomography
\* returns, not when it throws; an empty or invalid H is released.
computeHomographyLive(info, trackingConfig) ==
  IF BelowMinMatches(info.good, trackingConfig) THEN << >>
  ELSE IF info.fault = "findHomography" THEN <<"srcMat", "dstMat">>
  ELSE << >>

\* getTargetCorners returns null only from its catch block, which releases
\* nothing.
getTargetCornersLive(info) ==
  IF info.corners THEN << >> ELSE <<"corners", "transformedCorners">>

\* The candidate loop: held tells whether a best detection is kept, whose
\* homography is not released when a better one replaces it.
RECURSIVE DetectLoopLive(_, _, _, _, _, _)
DetectLoopLive(candidates, frame, trackingConfig, held, maxScore, live) ==
  IF candidates = << >> THEN live
  ELSE
    LET target == Head(candidates)
        rest == Tail(candidates)
        info == frame.match[target.id]
        H == computeHomography(info.good, trackingConfig, info.H)
        count == Len(target.features)
        matched == live \o matchFeaturesLive(info)
                        \o computeHomographyLive(info, trackingConfig)
    IN  IF Len(target.features) = 0
        THEN DetectLoopLive(rest, frame, trackingConfig, held, maxScore, live)
        ELSE IF H = NULL
        THEN DetectLoopLive(rest, frame, trackingConfig, held, maxScore, matched)
        ELSE IF ~info.corners
        THEN DetectLoopLive(rest, frame, trackingConfig, held, maxScore,
                            matched \o getTargetCornersLive(info))
        ELSE IF IsBetter(info.good, count, maxScore)
        THEN DetectLoopLive(rest, frame, trackingConfig, TRUE,
                            <<info.good, count>>,
                            matched \o (IF held THEN <<"homography">> ELSE << >>))
        ELSE DetectLoopLive(rest, frame, trackingConfig, held, maxScore, matched)

detectLive(frame, targetList, trackingConfig) ==
  IF frame.extract = "fault" THEN extractFeaturesLive(frame)
  ELSE IF frame.count = 0 THEN extractFeaturesLive(frame)
  ELSE DetectLoopLive(getCandidateTargets(NULL, frame, targetList), frame,
                      trackingConfig, FALSE, <<0, 1>>,
                      extractFeaturesLive(frame))

\* The targets detect runs matchFeatures on: the candidates with descriptors.
MatchedTargets(frame, targetList) ==
  IF frame.extract = "fault" \/ frame.count = 0 THEN << >>
  ELSE LET candidates ==
             SelectSeq(getCandidateTargets(NULL, frame, targetList),
                       LAMBDA t : Len(t.features) > 0)
       IN  [i \in 1..Len(candidates) |-> candidates[i].id]

\* ------------------------------------------------------------ ARRenderer
\* Opacity in steps of the 0.05 a fade takes off per frame: a video plane is
\* created opaque, a placeholder plane half transparent.
VideoOpacity == 20
PlaceholderOpacity == 10

\* config.rendering as the renderer reads it.
DefaultRendering == [smoothTransitions |-> TRUE]

\* The renderer after its constructor: targetContent holds the ids that have
\* a video registered, contentPlane is null or the plane in the scene with
\* its opacity, loading holds the ids of the showVideoContent calls suspended
\* at `await this.loadVideoTexture`, playing counts the playVideo calls
\* suspended at `await this.contentVideo.play()`, fading the fadeOut
\* callbacks queued with requestAnimationFrame; calls counts the setTarget
\* and clearTarget calls made so far.
NewRenderer(rendering, content) ==
  [config |-> rendering, targetContent |-> content,
   contentPlane |-> NullObject, currentTarget |-> NULL,
   contentVideo |-> NULL, isVideoPlaying |-> FALSE,
   loading |-> << >>, playing |-> 0, fading |-> 0, calls |-> 0]

\* createVideoPlane / showPlaceholder: a plane is created and added to the
\* scene when there is none; an existing plane is only moved.
WithPlane(r, opacity) ==
  IF r.contentPlane = NullObject
  THEN [r EXCEPT !.contentPlane = [opacity |-> opacity]]
  ELSE r

\* playVideo(): suspends at play() when a video is loaded.
playVideo(r) ==
  IF r.contentVideo = NULL THEN r ELSE [r EXCEPT !.playing = @ + 1]

\* showVideoContent past the load of the video: the plane, then the playback.
ShowLoadedVideo(r) ==
  LET shown == WithPlane(r, VideoOpacity)
  IN  IF shown.isVideoPlaying THEN shown ELSE playVideo(shown)

\* setTarget(detection) up to its first suspension.
setTarget(r, id) ==
  LET cur == [r EXCEPT !.currentTarget = id, !.calls = @ + 1]
  IN  IF id \in r.targetContent
      THEN IF cur.contentVideo # id
           THEN [cur EXCEPT !.loading = Append(@, id)]
           ELSE ShowLoadedVideo(cur)
      ELSE WithPlane(cur, PlaceholderOpacity)

\* One run of the fadeOut closure on a plane in the scene: it takes a step
\* off the opacity and queues itself, or removes the plane at opacity 0.
fadeOut(r) ==
  IF r.contentPlane.opacity > 0
  THEN [r EXCEPT !.contentPlane = [opacity |-> @.opacity - 1]]
  ELSE [r EXCEPT !.contentPlane = NullObject, !.fading = @ - 1]

\* pauseVideo()
pauseVideo(r) ==
  IF r.contentVideo # NULL /\ r.isVideoPlaying
  THEN [r EXCEPT !.isVideoPlaying = FALSE]
  ELSE r

\* clearTarget(): with a plane in the scene, the first fadeOut runs inside
\* the call, or the plane is removed at once without smooth transitions.
clearTarget(r) ==
  LET cleared ==
        IF r.contentPlane = NullObject THEN r
        ELSE IF r.config.smoothTransitions
        THEN fadeOut([r EXCEPT !.fading = @ + 1])
        ELSE [r EXCEPT !.contentPlane = NullObject]
  IN  [pauseVideo(cleared) EXCEPT !.currentTarget = NULL, !.calls = @ + 1]

\* ---------------------------------------------------------- ImageTracker
VARIABLES
  config,            \* the live configuration object (this.config)
  featureDetector,   \* NULL, or the config group the detector captured
  vocabularyTree,    \* NULL, or the index with the config group it captured
  targets,           \* the registry: insertion-ordered map id -> target
  isTracking,
  frameCount,
  detectionCallback,
  currentTarget,
  pending,           \* processFrame callbacks queued with requestAnimationFrame
  awaiting,          \* processFrame runs suspended at `await detectTarget()`
  inflight,          \* ids of addTarget calls awaiting their image
  addResult,         \* how the last settled addTarget call ended
  lastTick,          \* history: what the last processFrame body did
  removed,           \* history: ids removed and not registered again since
  lastCall,          \* history: the last direct call of a component operation
  arRenderer,        \* the renderer object the tracker hands its results to
  app                \* the application that owns the tracker (WebARApp)

vars == << config, featureDetector, vocabularyTree, targets, isTracking,
           frameCount, detectionCallback, currentTarget, pending, awaiting,
           inflight, addResult, lastTick, removed, lastCall, arRenderer,
           app >>

\* The application with no target loaded: targets holds the ids of its own
\* registry; caching, deleting and clearing hold its operations suspended at
\* an await of the persistent store (cacheManager.set, delete, clear).
NewApp == [targets |-> {}, caching |-> {}, deleting |-> {}, clearing |-> 0]

\* No component operation called directly yet; n counts such calls.
NoCall == [op |-> "none", n |-> 0]

\* tick: processFrame bodies run so far; k: those since the last start();
\* interval: the detection interval the body read; detect: whether it invoked
\* detectTarget; count: the invocations since the last start(); detection:
\* what detect returned, if it ran;
\* events: the renderer and callback calls detectTarget made, in order;
\* threw: whether detectTarget threw.
NoTick ==
  [tick |-> 0, k |-> 0, interval |-> 0, detect |-> FALSE, count |-> 0,
   detection |-> NullObject, events |-> << >>, threw |-> FALSE]

\* The state the constructor leaves.
Constructed(cfg) ==
  /\ config = cfg
  /\ featureDetector = NullObject
  /\ vocabularyTree = NullObject
  /\ targets = << >>
  /\ isTracking = FALSE
  /\ frameCount = 0
  /\ detectionCallback = NULL
  /\ currentTarget = NULL
  /\ pending = 0
  /\ awaiting = 0
  /\ inflight = {}
  /\ addResult = NullObject
  /\ lastTick = NoTick
  /\ removed = {}
  /\ lastCall = NoCall
  /\ arRenderer = NewRenderer(DefaultRendering, {})
  /\ app = NewApp

Init == \E cfg \in InitConfigs : Constructed(cfg)

\* init(): the detector and the index each keep the config group of the
\* moment (config.tracking, config.vocabulary), not the config object.
NewDetector(cfg) == [config |-> cfg.features, trackingConfig |-> cfg.tracking]

\* The switch of FeatureDetector.init falls to its default, which throws, for
\* a detector name that is none of the three (undefined included).
KnownDetectors == {"BRISK", "AKAZE", "ORB"}
UnknownDetector(features) ==
  \/ ~HasField(features, "detector")
  \/ features.detector \notin KnownDetectors
NewVocabularyTree(cfg) ==
  [config |-> cfg.vocabulary, vocabulary |-> << >>,
   targetFeatures |-> << >>, idf |-> << >>]

\* init(): when featureDetector.init() throws, init rejects with the detector
\* object stored and no index created.
TrackerInit ==
  /\ featureDetector = NullObject
  /\ featureDetector' = NewDetector(config)
  /\ vocabularyTree' = IF UnknownDetector(config.features) THEN vocabularyTree
                       ELSE NewVocabularyTree(config)
  /\ UNCHANGED << config, targets, isTracking, frameCount, detectionCallback,
                  currentTarget, pending, awaiting, inflight, addResult,
                  lastTick, removed,
                  lastCall,
                  arRenderer, app >>

\* updateConfig(newConfig): Object.assign replaces each top-level group the
\* patch names.
updateConfig(cfg, patch) ==
  [g \in DOMAIN cfg |-> IF g \in DOMAIN patch THEN patch[g] ELSE cfg[g]]

UpdateConfigFrom(patches) ==
  /\ \E patch \in patches : config' = updateConfig(config, patch)
  /\ config' # config
  /\ UNCHANGED << featureDetector, vocabularyTree, targets, isTracking,
                  frameCount, detectionCallback, currentTarget, pending,
                  awaiting, inflight, addResult, lastTick, removed,
                  lastCall,
                  arRenderer, app >>

UpdateConfig == UpdateConfigFrom(ConfigPatches)

\* Variant: addTarget returns without the rebuild.
rebuildVocabularySkipped(tree, targetList) == tree

\* rebuildVocabulary(): nothing with an empty registry, else build over the
\* registry's values.
rebuildVocabulary(tree, targetList) ==
  IF Len(targetList) = 0 THEN tree
  ELSE LET idx == build(tree, targetList, tree.config.size)
       IN  [tree EXCEPT !.vocabulary = idx.vocabulary,
                        !.targetFeatures = idx.targetFeatures,
                        !.idf = idx.idf]

\* addTarget(target) up to `await this.loadImage(...)`.
AddTargetCall ==
  /\ \E id \in Ids \ inflight : inflight' = inflight \cup {id}
  /\ UNCHANGED << config, featureDetector, vocabularyTree, targets,
                  isTracking, frameCount, detectionCallback, currentTarget,
                  pending, awaiting, addResult, lastTick, removed,
                  lastCall,
                  arRenderer, app >>

\* Variant: the target is stored before its features are extracted.
AddTargetRejectStored ==
  /\ \E id \in inflight :
       /\ inflight' = inflight \ {id}
       /\ targets' = MapSet(targets, [id |-> id, features |-> << >>])
       /\ addResult' = [id |-> id, status |-> "rejected"]
  /\ UNCHANGED << config, featureDetector, vocabularyTree, isTracking,
                  frameCount, detectionCallback, currentTarget, pending,
                  awaiting, lastTick, removed,
                  lastCall,
                  arRenderer, app >>

\* The image fails to decode, cv.imread throws, or extractFeatures throws
\* (always so before init(), where featureDetector is null): the call
\* rejects at that statement.
AddTargetReject ==
  /\ \E id \in inflight :
       /\ inflight' = inflight \ {id}
       /\ addResult' = [id |-> id, status |-> "rejected"]
  /\ UNCHANGED << config, featureDetector, vocabularyTree, targets,
                  isTracking, frameCount, detectionCallback, currentTarget,
                  pending, awaiting, lastTick, removed,
                  lastCall,
                  arRenderer, app >>

\* The image loads and extraction returns features: the rest of addTarget runs
\* without suspension that another task could enter: the features are
\* attached, the target is stored, the vocabulary rebuilt, the call resolves.
AddTargetResolve(featureSets) ==
  /\ featureDetector # NullObject
  /\ ~UnknownDetector(featureDetector.config)
  /\ \E id \in inflight, features \in featureSets :
       /\ inflight' = inflight \ {id}
       /\ targets' = MapSet(targets, [id |-> id, features |-> features])
       /\ vocabularyTree' = rebuildVocabulary(vocabularyTree, targets')
       /\ addResult' = [id |-> id, status |-> "resolved"]
       /\ removed' = removed \ {id}
  /\ UNCHANGED << config, featureDetector, isTracking, frameCount,
                  detectionCallback, currentTarget, pending, awaiting,
                  lastTick,
                  lastCall,
                  arRenderer, app >>

\* Variant: removeTarget leaves the registry entry in place.
RemoveTargetKeepsEntry ==
  /\ \E id \in Ids : removed' = removed \cup {id}
  /\ removed' # removed
  /\ UNCHANGED << config, featureDetector, vocabularyTree, targets,
                  isTracking, frameCount, detectionCallback, currentTarget,
                  pending, awaiting, inflight, addResult, lastTick,
                  lastCall,
                  arRenderer, app >>

\* removeTarget(targetId)
RemoveTarget ==
  /\ \E id \in Ids :
       /\ targets' = MapDelete(targets, id)
       /\ removed' = removed \cup {id}
  /\ removed' # removed \/ targets' # targets
  /\ UNCHANGED << config, featureDetector, vocabularyTree, isTracking,
                  frameCount, detectionCallback, currentTarget, pending,
                  awaiting, inflight, addResult, lastTick,
                  lastCall,
                  arRenderer, app >>

\* Variant: the remainder taken before the counter is incremented.
IsSampledBeforeIncrement(fc, interval) ==
  /\ interval # 0
  /\ (fc - 1) % interval = 0

\* frameCount % detectionInterval === 0, false when the remainder is NaN
\* (interval 0 or undefined).
IsSampled(fc, interval) ==
  /\ interval # 0
  /\ fc % interval = 0

\* config.tracking.detectionInterval as the remainder sees it.
DetectionInterval(cfg) ==
  IF HasField(cfg.tracking, "detectionInterval")
  THEN cfg.tracking.detectionInterval
  ELSE 0

\* detectTarget() on a frame: what it calls, what it leaves in currentTarget
\* and whether it throws (a capture fault, or the callback throwing).
\* Variant: the renderer is handed every result through setTarget.
RendererCallAlwaysSet(detection) ==
  [op |-> "setTarget", fn |-> "arRenderer", arg |-> detection]

\* The renderer call of detectTarget: setTarget for a success, clearTarget
\* otherwise.
RendererCall(detection) ==
  IF detection.success
  THEN [op |-> "setTarget", fn |-> "arRenderer", arg |-> detection]
  ELSE [op |-> "clearTarget", fn |-> "arRenderer", arg |-> NullObject]

\* The callback call of detectTarget, made when a callback is registered.
CallbackCall(callback, detection) ==
  IF callback # NULL
  THEN << [op |-> "callback", fn |-> callback, arg |-> detection] >>
  ELSE << >>

\* detectTarget past detect: currentTarget, the renderer, then the callback,
\* which may throw.
Dispatch(detection, callback, cbThrows) ==
  [detection |-> detection,
   events |-> <<RendererCall(detection)>> \o CallbackCall(callback, detection),
   currentTarget |-> IF detection.success THEN detection.targetId ELSE NULL,
   threw |-> callback # NULL /\ cbThrows]

detectTarget(frame, targetList, trackingConfig, callback, cbThrows, current) ==
  IF Len(targetList) = 0
  THEN [detection |-> NullObject, events |-> << >>,
        currentTarget |-> current, threw |-> FALSE]
  ELSE IF frame.capture = "fault"
  THEN [detection |-> NullObject, events |-> << >>,
        currentTarget |-> current, threw |-> TRUE]
  ELSE Dispatch(detect(frame, targetList, trackingConfig), callback, cbThrows)

\* The runs suspended at the await once detectTarget has returned or thrown:
\* the catch block swallows the error and requestAnimationFrame follows it.
\* Variant: an error of detectTarget leaves processFrame before it re-arms.
AwaitingAfterUncaught(suspended, threw) ==
  IF threw THEN suspended ELSE suspended + 1

AwaitingAfter(suspended, threw) == suspended + 1

\* The body of processFrame past its isTracking guard, with fc the frame counter
\* and callback the callback it finds. An unsampled frame re-arms at once; a
\* sampled one suspends at the await, whatever detectTarget did, and re-arms
\* when resumed.
ProcessFrameBody(fc, callback, sinceStart, detections, armed, frames) ==
  LET interval == DetectionInterval(config)
      sampled == IsSampled(fc + 1, interval)
  IN  /\ frameCount' = fc + 1
      /\ IF sampled
         THEN \E frame \in frames, cbThrows \in BOOLEAN :
                LET out == detectTarget(frame, targets,
                                        featureDetector.trackingConfig,
                                        callback, cbThrows, currentTarget)
                IN  /\ currentTarget' = out.currentTarget
                    /\ lastTick' = [tick |-> lastTick.tick + 1,
                                    k |-> sinceStart + 1,
                                    interval |-> interval,
                                    detect |-> TRUE,
                                    count |-> detections + 1,
                                    detection |-> out.detection,
                                    events |-> out.events,
                                    threw |-> out.threw]
                    /\ awaiting' = AwaitingAfter(awaiting, out.threw)
                    /\ pending' = armed
         ELSE /\ currentTarget' = currentTarget
              /\ lastTick' = [tick |-> lastTick.tick + 1,
                              k |-> sinceStart + 1,
                              interval |-> interval,
                              detect |-> FALSE,
                              count |-> detections,
                              detection |-> NullObject,
                              events |-> << >>,
                              threw |-> FALSE]
              /\ awaiting' = awaiting
              /\ pending' = armed + 1

\* Variant: start() leaves the frame counter as it finds it.
StartKeepsCounter(maxTicks, callbacks, frames) ==
  /\ lastTick.tick < maxTicks
  /\ pending + awaiting < MaxLoops
  /\ \E callback \in callbacks :
       /\ detectionCallback' = callback
       /\ isTracking' = TRUE
       /\ ProcessFrameBody(frameCount, callback, 0, 0, pending, frames)
  /\ UNCHANGED << config, featureDetector, vocabularyTree, targets, inflight,
                  addResult, removed,
                  lastCall,
                  arRenderer, app >>

\* start(callback): the first processFrame runs inside the call.
Start(maxTicks, callbacks, frames) ==
  /\ lastTick.tick < maxTicks
  /\ pending + awaiting < MaxLoops
  /\ \E callback \in callbacks :
       /\ detectionCallback' = callback
       /\ isTracking' = TRUE
       /\ ProcessFrameBody(0, callback, 0, 0, pending, frames)
  /\ UNCHANGED << config, featureDetector, vocabularyTree, targets, inflight,
                  addResult, removed,
                  lastCall,
                  arRenderer, app >>

\* stop()
Stop ==
  /\ isTracking
  /\ isTracking' = FALSE
  /\ UNCHANGED << config, featureDetector, vocabularyTree, targets,
                  frameCount, detectionCallback, currentTarget, pending,
                  awaiting, inflight, addResult, lastTick, removed,
                  lastCall,
                  arRenderer, app >>

\* Variant: processFrame without its isTracking guard.
TickUnguarded(maxTicks, frames) ==
  /\ pending > 0
  /\ lastTick.tick < maxTicks
  /\ ProcessFrameBody(frameCount, detectionCallback, lastTick.k,
                      lastTick.count, pending - 1, frames)
  /\ UNCHANGED << config, featureDetector, vocabularyTree, targets,
                  isTracking, detectionCallback, inflight, addResult, removed,
                  lastCall,
                  arRenderer, app >>

\* The host runs a queued processFrame callback.
Tick(maxTicks, frames) ==
  /\ pending > 0
  /\ IF ~isTracking
     THEN /\ pending' = pending - 1
          /\ UNCHANGED << frameCount, currentTarget, awaiting, lastTick >>
     ELSE /\ lastTick.tick < maxTicks
          /\ ProcessFrameBody(frameCount, detectionCallback, lastTick.k,
                              lastTick.count, pending - 1, frames)
  /\ UNCHANGED << config, featureDetector, vocabularyTree, targets,
                  isTracking, detectionCallback, inflight, addResult, removed,
                  lastCall,
                  arRenderer, app >>

\* A processFrame suspended at the await resumes: requestAnimationFrame.
Rearm ==
  /\ awaiting > 0
  /\ awaiting' = awaiting - 1
  /\ pending' = pending + 1
  /\ UNCHANGED << config, featureDetector, vocabularyTree, targets,
                  isTracking, frameCount, detectionCallback, currentTarget,
                  inflight, addResult, lastTick, removed,
                  lastCall,
                  arRenderer, app >>

\* ------------------------------------------------------- specifications
\* The whole tracker from construction, on small inputs.
Next ==
  \/ TrackerInit
  \/ AddTargetCall
  \/ AddTargetReject
  \/ AddTargetResolve(SmallFeatureSets)
  \/ RemoveTarget
  \/ Start(MaxTicks, {"cb1"}, SmallFrames)
  \/ Stop
  \/ Tick(MaxTicks, SmallFrames)
  \/ Rearm

Spec == Init /\ [][Next]_vars

\* The registry and the vocabulary index, with no frame loop running.
NextRegistry ==
  \/ TrackerInit
  \/ AddTargetCall
  \/ AddTargetReject
  \/ AddTargetResolve(FeatureSets)
  \/ RemoveTarget

SpecRegistry == Init /\ [][NextRegistry]_vars

\* A tracker after init() whose registry holds the given targets, each added
\* in turn.
RECURSIVE Registered(_, _)
Registered(tree, targetList) ==
  IF targetList = << >> THEN tree
  ELSE LET before == Registered(tree, SubSeq(targetList, 1, Len(targetList) - 1))
       IN  rebuildVocabulary(before, targetList)

TrackerInitialized(cfg, targetList) ==
  /\ config = cfg
  /\ featureDetector = NewDetector(cfg)
  /\ vocabularyTree = Registered(NewVocabularyTree(cfg), targetList)
  /\ targets = targetList
  /\ isTracking = FALSE
  /\ frameCount = 0
  /\ detectionCallback = NULL
  /\ currentTarget = NULL
  /\ pending = 0
  /\ awaiting = 0
  /\ inflight = {}
  /\ addResult = NullObject
  /\ lastTick = NoTick
  /\ removed = {}
  /\ lastCall = NoCall

Initialized(cfg, targetList) ==
  /\ TrackerInitialized(cfg, targetList)
  /\ arRenderer = NewRenderer(DefaultRendering, {})
  /\ app = NewApp

LoopRegistries ==
  { << >>,
    << [id |-> "tA", features |-> << <<0>>, <<1>> >>] >>,
    << [id |-> "tA", features |-> << <<0>>, <<1>> >>],
       [id |-> "tB", features |-> << <<254>>, <<255>> >>] >> }

\* The frame loop on a fixed registry: start, stop, the host's frames and
\* configuration patches.
InitLoop ==
  \E cfg \in InitConfigs, targetList \in LoopRegistries :
    Initialized(cfg, targetList)

NextLoop ==
  \/ UpdateConfig
  \/ Start(MaxLoopTicks, Callbacks, Frames)
  \/ Stop
  \/ Tick(MaxLoopTicks, Frames)
  \/ Rearm

SpecLoop == InitLoop /\ [][NextLoop]_vars

\* One start() and the loop it arms left running, for a fixed interval.
ScenarioIntervals == {1, 2, 3, 30}

InitScenario ==
  \E n \in ScenarioIntervals, targetList \in LoopRegistries :
    Initialized([features |-> DefaultFeatures,
                 tracking |-> [detectionInterval |-> n, minMatches |-> 12],
                 vocabulary |-> DefaultVocabulary],
                targetList)

StartOnce ==
  /\ ~isTracking
  /\ lastTick.tick = 0
  /\ Start(MaxScenarioTicks, Callbacks, Frames)

NextScenario ==
  \/ StartOnce
  \/ Tick(MaxScenarioTicks, Frames)
  \/ Rearm

SpecScenario == InitScenario /\ [][NextScenario]_vars

\* The vocabulary index taken alone: build and query called on the index of an
\* initialized tracker, as rebuildVocabulary and a candidate search call them.
\* Direct calls of component operations a behaviour makes.
MaxCalls == 2

IndexFeatureSets ==
  { << >>,
    << <<0>>, <<1>> >>,
    << <<0>>, <<255>> >>,
    << <<15>>, <<240>> >> }

\* The lists handed to build: up to two targets with distinct ids.
IndexTargetLists ==
  { << >> }
  \cup { << [id |-> a, features |-> fa] >> : a \in Ids, fa \in IndexFeatureSets }
  \cup UNION { { << [id |-> a, features |-> fa], [id |-> b, features |-> fb] >> :
                   b \in Ids \ {a},
                   fa \in IndexFeatureSets, fb \in IndexFeatureSets } :
                 a \in Ids }

IndexConfigs ==
  { [features |-> DefaultFeatures, tracking |-> DefaultTracking,
     vocabulary |-> [size |-> k, topCandidates |-> n]] :
      k \in {1, 2}, n \in {1, 3} }

InitIndex == \E cfg \in IndexConfigs : Initialized(cfg, << >>)

\* this.vocabularyTree.build(targetList) on the tree object.
VocabularyTreeBuild(tree, targetList) ==
  LET idx == build(tree, targetList, tree.config.size)
  IN  [tree EXCEPT !.vocabulary = idx.vocabulary,
                   !.targetFeatures = idx.targetFeatures,
                   !.idf = idx.idf]

BuildCall ==
  /\ lastCall.n < MaxCalls
  /\ \E targetList \in IndexTargetLists :
       /\ vocabularyTree' = VocabularyTreeBuild(vocabularyTree, targetList)
       /\ lastCall' = [op |-> "build", n |-> lastCall.n + 1,
                       targets |-> targetList, before |-> vocabularyTree,
                       threw |-> FALSE]
  /\ UNCHANGED << config, featureDetector, targets, isTracking, frameCount,
                  detectionCallback, currentTarget, pending, awaiting,
                  inflight, addResult, lastTick, removed,
                  arRenderer, app >>

\* this.vocabularyTree.query(queryDescriptors)
QueryCall ==
  /\ lastCall.op # "query"
  /\ \E q \in QueryFrames :
       lastCall' = [op |-> "query", n |-> lastCall.n, descriptors |-> q,
                    result |-> query(vocabularyTree, q,
                                     vocabularyTree.config.topCandidates)]
  /\ UNCHANGED << config, featureDetector, vocabularyTree, targets,
                  isTracking, frameCount, detectionCallback, currentTarget,
                  pending, awaiting, inflight, addResult, lastTick, removed,
                  arRenderer, app >>

NextIndex ==
  \/ BuildCall
  \/ QueryCall

SpecIndex == InitIndex /\ [][NextIndex]_vars

\* Configuration handling: a tracker constructed with any configuration,
\* validateConfig applied to the live configuration, init() and updateConfig.
\* ratioThreshold is kept in hundredths (0.8 is 80).
ValidationConfigs ==
  { [features |-> [detector |-> d, maxFeaturesPerFrame |-> m],
     tracking |-> [detectionInterval |-> i, minMatches |-> mm,
                   ratioThreshold |-> r],
     vocabulary |-> [size |-> k, topCandidates |-> t]] :
      d \in {"BRISK", "SIFT"}, m \in {1000, 0}, i \in {30, 0},
      mm \in {12, 3}, r \in {80, 40}, k \in {200, 49}, t \in {3, 0} }

ValidationPatches ==
  { [features |-> [maxFeaturesPerFrame |-> 0]],
    [tracking |-> [detectionInterval |-> 0, minMatches |-> 3,
                   ratioThreshold |-> 120]],
    [vocabulary |-> [size |-> 200, topCandidates |-> 3]] }

\* One check of validateConfig: its message when the comparison holds; a
\* comparison with an undefined field is false.
CheckError(failed, message) == IF failed THEN <<message>> ELSE << >>

\* validateConfig(config): the list of error messages.
validateConfig(cfg) ==
  CheckError(HasField(cfg.tracking, "minMatches") /\ cfg.tracking.minMatches < 4,
             "tracking.minMatches must be >= 4")
  \o CheckError(/\ HasField(cfg.tracking, "ratioThreshold")
                /\ \/ cfg.tracking.ratioThreshold < 50
                   \/ cfg.tracking.ratioThreshold > 100,
                "tracking.ratioThreshold must be between 0.5 and 1.0")
  \o CheckError(HasField(cfg.vocabulary, "size") /\ cfg.vocabulary.size < 50,
                "vocabulary.size must be >= 50")

InitConfig == \E cfg \in ValidationConfigs : Constructed(cfg)

ValidateCall ==
  /\ lastCall.n < MaxCalls
  /\ lastCall' = [op |-> "validateConfig", n |-> lastCall.n + 1,
                  config |-> config, errors |-> validateConfig(config)]
  /\ UNCHANGED << config, featureDetector, vocabularyTree, targets,
                  isTracking, frameCount, detectionCallback, currentTarget,
                  pending, awaiting, inflight, addResult, lastTick, removed,
                  arRenderer, app >>

NextConfig ==
  \/ ValidateCall
  \/ TrackerInit
  \/ UpdateConfigFrom(ValidationPatches)

SpecConfig == InitConfig /\ [][NextConfig]_vars

\* The detector taken alone: detect called on frames as detectTarget calls
\* it, on a fixed registry, between configuration patches.
DetectMatchInfos ==
  { [good |-> 0, H |-> FALSE, corners |-> TRUE, fault |-> "knnMatch"],
    [good |-> 11, H |-> TRUE, corners |-> TRUE, fault |-> "none"],
    [good |-> 12, H |-> TRUE, corners |-> TRUE, fault |-> "none"],
    [good |-> 12, H |-> FALSE, corners |-> TRUE, fault |-> "none"],
    [good |-> 12, H |-> FALSE, corners |-> TRUE, fault |-> "findHomography"],
    [good |-> 12, H |-> TRUE, corners |-> FALSE, fault |-> "perspectiveTransform"],
    [good |-> 24, H |-> TRUE, corners |-> TRUE, fault |-> "none"] }

\* The frames whose capture succeeded.
DetectFrames ==
  { f \in FramesOver(DetectMatchInfos) : f.capture = "ok" }

DetectRegistries ==
  LoopRegistries
  \cup { << [id |-> "tA", features |-> << >>],
            [id |-> "tB", features |-> << <<0>>, <<1>> >>] >>,
         << [id |-> "tA", features |-> << <<0>>, <<255>>, <<15>> >>],
            [id |-> "tB", features |-> << <<0>>, <<1>> >>] >> }

DetectConfigs ==
  { [features |-> DefaultFeatures, tracking |-> DefaultTracking,
     vocabulary |-> [size |-> 2, topCandidates |-> n]] : n \in {1, 3} }

DetectPatches ==
  { [tracking |-> [detectionInterval |-> 2, minMatches |-> 20]],
    [vocabulary |-> [size |-> 2, topCandidates |-> 1]],
    [features |-> [detector |-> "BRISK", maxFeaturesPerFrame |-> 500]] }

\* The descriptor rows of a frame with count features: the pattern repeated.
FrameDescriptors(frame, pattern) ==
  IF frame.extract = "fault" \/ frame.count = 0 THEN << >>
  ELSE [i \in 1..frame.count |-> pattern[((i - 1) % Len(pattern)) + 1]]

InitDetect ==
  \E cfg \in DetectConfigs, targetList \in DetectRegistries :
    Initialized(cfg, targetList)

\* this.featureDetector.detect(frameMat, Array.from(this.targets.values()))
DetectCall ==
  /\ lastCall.n < MaxCalls
  /\ \E frame \in DetectFrames, pattern \in QueryFrames \ {<< >>} :
       lastCall' =
         [op |-> "detect", n |-> lastCall.n + 1, frame |-> frame,
          descriptors |-> FrameDescriptors(frame, pattern),
          matched |-> MatchedTargets(frame, targets),
          result |-> detect(frame, targets, featureDetector.trackingConfig),
          live |-> detectLive(frame, targets, featureDetector.trackingConfig)]
  /\ UNCHANGED << config, featureDetector, vocabularyTree, targets,
                  isTracking, frameCount, detectionCallback, currentTarget,
                  pending, awaiting, inflight, addResult, lastTick, removed,
                  arRenderer, app >>

NextDetect ==
  \/ DetectCall
  \/ UpdateConfigFrom(DetectPatches)

SpecDetect == InitDetect /\ [][NextDetect]_vars

\* Feature extraction taken alone: extractFeatures called on images whose
\* detected keypoints are given.
MaxKeypoints == 4
Responses == {1, 2, 3}

\* The descriptor rows of n keypoints: row i is told apart by its byte.
DescriptorRows(n) == [i \in 1..n |-> <<(37 * i) % 256>>]

ExtractConfigs ==
  { [features |-> [detector |-> "BRISK", maxFeaturesPerFrame |-> m],
     tracking |-> DefaultTracking, vocabulary |-> DefaultVocabulary] :
      m \in {2, 3} }

InitExtract == \E cfg \in ExtractConfigs : Initialized(cfg, << >>)

\* this.featureDetector.extractFeatures(imageMat)
ExtractCall ==
  /\ lastCall.n < MaxCalls
  /\ \E n \in 0..MaxKeypoints :
       \E response \in [1..n -> Responses] :
         LET keypoints == [i \in 1..n |-> [pt |-> i, response |-> response[i]]]
         IN  lastCall' =
               [op |-> "extractFeatures", n |-> lastCall.n + 1,
                keypoints |-> keypoints,
                descriptors |-> DescriptorRows(n),
                result |-> extractFeatures(keypoints, DescriptorRows(n),
                                           featureDetector.config)]
  /\ UNCHANGED << config, featureDetector, vocabularyTree, targets,
                  isTracking, frameCount, detectionCallback, currentTarget,
                  pending, awaiting, inflight, addResult, lastTick, removed,
                  arRenderer, app >>

NextExtract == ExtractCall

SpecExtract == InitExtract /\ [][NextExtract]_vars

\* Overlapping registrations: every addTarget call is made before any call
\* has settled and before any removal, so the calls in flight await their
\* images at the same time; removeTarget may come in between.
AddTargetCallOverlapping ==
  /\ addResult = NullObject
  /\ removed = {}
  /\ AddTargetCall

InitConcurrent == \E cfg \in InitConfigs : Initialized(cfg, << >>)

NextConcurrent ==
  \/ AddTargetCallOverlapping
  \/ AddTargetReject
  \/ AddTargetResolve(FeatureSets)
  \/ RemoveTarget

SpecConcurrent == InitConcurrent /\ [][NextConcurrent]_vars

\* The renderer taken alone, called as detectTarget calls it: setTarget with
\* each Success, clearTarget with each Failure, and in between the video
\* loads, the playback starts and the fade frames the host runs.
MaxRendererCalls == 3

Renderings == { [smoothTransitions |-> b] : b \in BOOLEAN }

InitRenderer ==
  /\ \E cfg \in InitConfigs, targetList \in LoopRegistries :
       /\ targetList # << >>
       /\ TrackerInitialized(cfg, targetList)
  /\ \E rendering \in Renderings, content \in SUBSET MapKeys(targets) :
       arRenderer = NewRenderer(rendering, content)
  /\ app = NewApp

TrackerUnchanged ==
  UNCHANGED << config, featureDetector, vocabularyTree, targets, isTracking,
               frameCount, detectionCallback, currentTarget, pending,
               awaiting, inflight, addResult, lastTick, removed, lastCall, app >>

\* this.arRenderer.setTarget(detection) for a Success on a registered target.
RendererSetTarget ==
  /\ arRenderer.calls < MaxRendererCalls
  /\ \E id \in MapKeys(targets) : arRenderer' = setTarget(arRenderer, id)
  /\ TrackerUnchanged

\* this.arRenderer.clearTarget()
RendererClearTarget ==
  /\ arRenderer.calls < MaxRendererCalls
  /\ arRenderer' = clearTarget(arRenderer)
  /\ TrackerUnchanged

\* The sequence without its element at i.
RemoveAt(seq, i) == SubSeq(seq, 1, i - 1) \o SubSeq(seq, i + 1, Len(seq))

\* loadeddata: a suspended showVideoContent resumes with its video.
VideoLoaded ==
  /\ \E i \in 1..Len(arRenderer.loading) :
       arRenderer' =
         ShowLoadedVideo([arRenderer EXCEPT
                            !.loading = RemoveAt(@, i),
                            !.contentVideo = arRenderer.loading[i]])
  /\ TrackerUnchanged

\* error: the load rejects and the catch block shows the placeholder.
VideoLoadFails ==
  /\ \E i \in 1..Len(arRenderer.loading) :
       arRenderer' =
         WithPlane([arRenderer EXCEPT !.loading = RemoveAt(@, i)],
                   PlaceholderOpacity)
  /\ TrackerUnchanged

\* play() settles: isVideoPlaying is set when it resolves.
PlaySettles ==
  /\ arRenderer.playing > 0
  /\ \E resolved \in BOOLEAN :
       arRenderer' = [arRenderer EXCEPT !.playing = @ - 1,
                                        !.isVideoPlaying = resolved \/ @]
  /\ TrackerUnchanged

\* The host runs a queued fadeOut: with the plane gone meanwhile, reading
\* its material throws and the fade ends.
FadeFrame ==
  /\ arRenderer.fading > 0
  /\ arRenderer' = IF arRenderer.contentPlane = NullObject
                   THEN [arRenderer EXCEPT !.fading = @ - 1]
                   ELSE fadeOut(arRenderer)
  /\ TrackerUnchanged

NextRenderer ==
  \/ RendererSetTarget
  \/ RendererClearTarget
  \/ VideoLoaded
  \/ VideoLoadFails
  \/ PlaySettles
  \/ FadeFrame

SpecRenderer == InitRenderer /\ [][NextRenderer]_vars

\* The application's target operations on an initialized tracker: loading a
\* target file, removing a target, clearing the cached data. Each suspends at
\* the persistent store, which may fail.
\* loadTargets, for one file, up to `await this.cacheManager.set`: the id is
\* drawn fresh, the target goes into the application's registry.
AppLoadTarget ==
  /\ \E id \in Ids \ (app.targets \cup app.caching \cup MapKeys(targets)
                       \cup inflight) :
       app' = [app EXCEPT !.targets = @ \cup {id}, !.caching = @ \cup {id}]
  /\ UNCHANGED << config, featureDetector, vocabularyTree, targets,
                  isTracking, frameCount, detectionCallback, currentTarget,
                  pending, awaiting, inflight, addResult, lastTick, removed,
                  lastCall, arRenderer >>

\* cacheManager.set settles: imageTracker.addTarget is called when it
\* resolved; when it rejected the catch block logs it.
AppCacheSetSettles ==
  /\ \E id \in app.caching, stored \in BOOLEAN :
       /\ app' = [app EXCEPT !.caching = @ \ {id}]
       /\ inflight' = IF stored THEN inflight \cup {id} ELSE inflight
  /\ UNCHANGED << config, featureDetector, vocabularyTree, targets,
                  isTracking, frameCount, detectionCallback, currentTarget,
                  pending, awaiting, addResult, lastTick, removed,
                  lastCall, arRenderer >>

\* removeTarget(targetId) up to `await this.cacheManager.delete`.
AppRemoveTarget ==
  /\ \E id \in app.targets \ app.deleting :
       app' = [app EXCEPT !.targets = @ \ {id}, !.deleting = @ \cup {id}]
  /\ UNCHANGED << config, featureDetector, vocabularyTree, targets,
                  isTracking, frameCount, detectionCallback, currentTarget,
                  pending, awaiting, inflight, addResult, lastTick, removed,
                  lastCall, arRenderer >>

\* cacheManager.delete settles: imageTracker.removeTarget follows when it
\* resolved; when it rejected, removeTarget rejects at the await.
AppCacheDeleteSettles ==
  /\ \E id \in app.deleting, deleted \in BOOLEAN :
       /\ app' = [app EXCEPT !.deleting = @ \ {id}]
       /\ targets' = IF deleted THEN MapDelete(targets, id) ELSE targets
       /\ removed' = IF deleted THEN removed \cup {id} ELSE removed
  /\ UNCHANGED << config, featureDetector, vocabularyTree, isTracking,
                  frameCount, detectionCallback, currentTarget, pending,
                  awaiting, inflight, addResult, lastTick,
                  lastCall, arRenderer >>

\* The clearCache handler up to `await this.cacheManager.clear()`.
AppClearCache ==
  /\ app.clearing = 0
  /\ app.targets # {}
  /\ app' = [app EXCEPT !.clearing = 1]
  /\ UNCHANGED << config, featureDetector, vocabularyTree, targets,
                  isTracking, frameCount, detectionCallback, currentTarget,
                  pending, awaiting, inflight, addResult, lastTick, removed,
                  lastCall, arRenderer >>

\* cacheManager.clear settles: this.targets.clear() follows when it resolved.
AppCacheClearSettles ==
  /\ app.clearing > 0
  /\ \E cleared \in BOOLEAN :
       app' = [app EXCEPT !.clearing = 0,
                          !.targets = IF cleared THEN {} ELSE @]
  /\ UNCHANGED << config, featureDetector, vocabularyTree, targets,
                  isTracking, frameCount, detectionCallback, currentTarget,
                  pending, awaiting, inflight, addResult, lastTick, removed,
                  lastCall, arRenderer >>

InitApp == \E cfg \in InitConfigs : Initialized(cfg, << >>)

NextApp ==
  \/ AppLoadTarget
  \/ AppCacheSetSettles
  \/ AddTargetReject
  \/ AddTargetResolve(SmallFeatureSets)
  \/ AppRemoveTarget
  \/ AppCacheDeleteSettles
  \/ AppClearCache
  \/ AppCacheClearSettles

SpecApp == InitApp /\ [][NextApp]_vars

\* ----------------------------------------------------------------- claims
\* C1: after start(), with detectionInterval = N >= 1 and one frame loop
\* running, the k-th processFrame tick invokes detectTarget exactly when k is
\* a positive multiple of N, so the first k ticks hold k div N invocations;
\* for N = 30 the first 59 ticks hold exactly one, on tick 30.
C1_DetectsOnMultiples ==
  lastTick.tick > 0 =>
    /\ lastTick.detect <=> (lastTick.k % lastTick.interval = 0)
    /\ lastTick.count = lastTick.k \div lastTick.interval
    /\ (lastTick.interval = 30 /\ lastTick.k < 30) => lastTick.count = 0
    /\ (lastTick.interval = 30 /\ lastTick.k \in 30..59) => lastTick.count = 1

C1_Witness ==
  /\ lastTick.interval = 30
  /\ lastTick.k = 59
  /\ lastTick.count = 1
  /\ frameCount = 59

\* C2: a detectTarget that throws on a sampled tick is caught: nothing of the
\* frame is dispatched when the capture failed, and the loop is re-armed all the
\* same, so while tracking is on a frame callback is always queued or about to
\* be queued.
C2_LoopStaysArmed ==
  /\ isTracking => pending + awaiting > 0
  /\ (lastTick.threw /\ lastTick.detection = NullObject) => lastTick.events = << >>

C2_Witness ==
  /\ isTracking
  /\ lastTick.threw
  /\ awaiting = 0
  /\ pending = 1

\* C3: on a sampled frame for which detect returned a result the renderer gets
\* exactly one call, setTarget(result) exactly for a success and clearTarget()
\* exactly for a failure, and then the registered callback gets exactly one
\* call with the same result.
C3_OneRenderThenCallback ==
  lastTick.detection # NullObject =>
    /\ Len(lastTick.events) = 2
    /\ lastTick.events[1].fn = "arRenderer"
    /\ (lastTick.events[1].op = "setTarget") <=> lastTick.detection.success
    /\ (lastTick.events[1].op = "clearTarget") <=> ~lastTick.detection.success
    /\ lastTick.detection.success => lastTick.events[1].arg = lastTick.detection
    /\ lastTick.events[2] =
         [op |-> "callback", fn |-> detectionCallback, arg |-> lastTick.detection]

C3_Witness ==
  /\ lastTick.detection # NullObject
  /\ lastTick.detection.success
  /\ Len(lastTick.events) = 2
  /\ lastTick.events[1].op = "setTarget"
  /\ lastTick.events[2].op = "callback"

\* C4: a sampled frame that finds the registry empty is handled as a failure:
\* nothing is thrown, the renderer is cleared and the callback gets a failure.
C4_EmptyRegistryIsFailure ==
  (lastTick.detect /\ Len(targets) = 0) =>
    /\ ~lastTick.threw
    /\ Len(lastTick.events) = 2
    /\ lastTick.events[1].op = "clearTarget"
    /\ lastTick.events[2].op = "callback"
    /\ ~lastTick.events[2].arg.success

\* C5: stop() interrupts nothing that is running, and from its return until the
\* next start() no step invokes detectTarget, the renderer or the callback; a
\* queued frame callback that runs is not queued again, so the queued and
\* suspended runs only drain.
C5_StoppedLoopIsQuiet ==
  [][ /\ (~isTracking /\ ~isTracking') =>
           /\ lastTick' = lastTick
           /\ currentTarget' = currentTarget
           /\ frameCount' = frameCount
           /\ awaiting' <= awaiting
           /\ pending' + awaiting' <= pending + awaiting
      /\ (isTracking /\ ~isTracking') =>
           UNCHANGED << lastTick, currentTarget, frameCount, pending, awaiting >>
    ]_vars

C5_Witness ==
  /\ ~isTracking
  /\ lastTick.detect
  /\ pending = 0
  /\ awaiting = 0

\* C6: start(callback), also after a stop() or on a running tracker, counts
\* frames from zero again and stores the callback: the frame counter is the
\* number of ticks since the most recent start, detection runs on the ticks
\* whose number since that start is a multiple of the interval, and every
\* callback call goes to the callback registered last.
C6_StartResetsCounterAndCallback ==
  lastTick.tick > 0 =>
    /\ frameCount = lastTick.k
    /\ lastTick.detect <=>
         (lastTick.interval # 0 /\ lastTick.k % lastTick.interval = 0)
    /\ \A i \in 1..Len(lastTick.events) :
         lastTick.events[i].op = "callback" =>
           lastTick.events[i].fn = detectionCallback

C6_Witness ==
  /\ lastTick.tick > lastTick.k
  /\ lastTick.detect
  /\ lastTick.count = 1
  /\ lastTick.k = lastTick.interval
  /\ Len(lastTick.events) = 2
  /\ lastTick.events[2].fn = "cb2"

\* The step in which an addTarget call settles, and how.
Settles(status) ==
  /\ inflight' # inflight
  /\ inflight' \subseteq inflight
  /\ addResult'.status = status

\* All descriptor rows of a registry, in registry order.
Pool(targetList) ==
  Flatten([i \in 1..Len(targetList) |-> targetList[i].features])

C8_RejectedAddChangesNothing ==
  [][ Settles("rejected") =>
        /\ targets' = targets
        /\ vocabularyTree' = vocabularyTree
    ]_vars

C8_Witness ==
  /\ addResult # NullObject
  /\ addResult.status = "rejected"
  /\ Len(targets) = 1
  /\ ~MapHas(targets, addResult.id)
  /\ ~MapHas(vocabularyTree.targetFeatures, addResult.id)

\* C9: after any sequence of addTarget and removeTarget calls, query returns
\* only ids that are in the registry.
C9_QueryReturnsRegisteredIds ==
  vocabularyTree # NullObject =>
    \A q \in QueryFrames :
      \A i \in 1..Len(query(vocabularyTree, q, vocabularyTree.config.topCandidates)) :
        query(vocabularyTree, q, vocabularyTree.config.topCandidates)[i]
          \in MapKeys(targets)

\* C10: between removeTarget(id) and the next addTarget that registers id, no
\* success with targetId = id reaches the renderer or the callback: every
\* success dispatched names a registered target that is not removed.
C10_NoSuccessForRemoved ==
  [][ lastTick' # lastTick =>
        \A i \in 1..Len(lastTick'.events) :
          (lastTick'.events[i].arg # NullObject /\ lastTick'.events[i].arg.success) =>
            /\ lastTick'.events[i].arg.targetId \notin removed
            /\ MapHas(targets, lastTick'.events[i].arg.targetId)
    ]_vars

C10_Witness ==
  /\ lastTick.detection # NullObject
  /\ lastTick.detection.success
  /\ \E id \in removed :
       /\ ~MapHas(targets, id)
       /\ MapHas(vocabularyTree.targetFeatures, id)
       /\ lastTick.detection.targetId # id

\* C11: each build replaces the index: when an addTarget call resolves over a
\* registry with a descriptor, the codebook, the bag-of-words entries and the
\* IDF values are those of a fresh index built from the registry's targets, so
\* a target removed earlier has no entry and does not count for the IDF.
C11_BuildReplacesIndex ==
  [][ (Settles("resolved") /\ Pool(targets') # << >>) =>
        LET fresh == build(NewVocabularyTree(config), targets',
                           vocabularyTree.config.size)
        IN  /\ vocabularyTree'.vocabulary = fresh.vocabulary
            /\ vocabularyTree'.targetFeatures = fresh.targetFeatures
            /\ vocabularyTree'.idf = fresh.idf
    ]_vars

\* C12: build([]) never throws, after it every query returns the empty list
\* whatever was built before, and a second build([]) changes nothing.
C12_EmptyBuildEmptiesQueries ==
  (lastCall.op = "build" /\ lastCall.targets = << >>) =>
    /\ ~lastCall.threw
    /\ \A q \in QueryFrames :
         query(vocabularyTree, q, vocabularyTree.config.topCandidates) = << >>
    /\ VocabularyTreeBuild(vocabularyTree, << >>) = vocabularyTree

\* The entries of a sequence, and the place of an entry (0 if absent).
Range(seq) == { seq[i] : i \in 1..Len(seq) }

Position(seq, x) ==
  IF x \in Range(seq) THEN CHOOSE i \in 1..Len(seq) : seq[i] = x ELSE 0

\* The score query gives the index entry id for the frame descriptors.
ScoreOf(tree, descriptors, id) ==
  QueryScore(computeBagOfWords(descriptors, tree.vocabulary),
             tree.targetFeatures[IndexOf(tree.targetFeatures, id)].bow,
             tree.idf)

\* C19: query returns the empty list while no vocabulary is built; otherwise
\* it returns distinct ids of index entries, as many as there are up to
\* topCandidates, in order of non-increasing score, and no entry left out
\* scores higher than one returned.
C19_QueryRanksTopCandidates ==
  lastCall.op = "query" =>
    LET result == lastCall.result
        tf == vocabularyTree.targetFeatures
        score(id) == ScoreOf(vocabularyTree, lastCall.descriptors, id)
    IN  IF Len(vocabularyTree.vocabulary) = 0 THEN result = << >>
        ELSE /\ Len(result) = Min2(vocabularyTree.config.topCandidates, Len(tf))
             /\ Range(result) \subseteq MapKeys(tf)
             /\ Cardinality(Range(result)) = Len(result)
             /\ \A i \in 1..Len(result) : \A j \in (i + 1)..Len(result) :
                  score(result[i]) >= score(result[j])
             /\ \A id \in MapKeys(tf) \ Range(result) :
                  \A i \in 1..Len(result) : score(id) <= score(result[i])

C19_Witness ==
  /\ lastCall.op = "query"
  /\ Len(vocabularyTree.targetFeatures) = 2
  /\ Len(lastCall.result) = 1
  /\ lastCall.result[1] = vocabularyTree.targetFeatures[2].id
  /\ ScoreOf(vocabularyTree, lastCall.descriptors, lastCall.result[1]) >
       ScoreOf(vocabularyTree, lastCall.descriptors,
               vocabularyTree.targetFeatures[1].id)

\* A build of a fresh index from two targets that both have descriptors and
\* share none.
BuiltFromDisjointPair ==
  /\ lastCall.op = "build"
  /\ lastCall.before.vocabulary = << >>
  /\ lastCall.before.targetFeatures = << >>
  /\ Len(lastCall.targets) = 2
  /\ lastCall.targets[1].features # << >>
  /\ lastCall.targets[2].features # << >>
  /\ Range(lastCall.targets[1].features) \cap Range(lastCall.targets[2].features) = {}

\* query on a's descriptors returns a's id, and b's id not at all or later.
RanksBefore(a, b) ==
  LET result == query(vocabularyTree, lastCall.targets[a].features,
                      vocabularyTree.config.topCandidates)
      ida == lastCall.targets[a].id
      idb == lastCall.targets[b].id
  IN  /\ ida \in Range(result)
      /\ idb \in Range(result) => Position(result, ida) < Position(result, idb)

\* Some visual word holds a descriptor of a and none of b.
HasOwnWord(a, b) ==
  LET tf == vocabularyTree.targetFeatures
      bowa == tf[IndexOf(tf, lastCall.targets[a].id)].bow
      bowb == tf[IndexOf(tf, lastCall.targets[b].id)].bow
  IN  \E w \in DOMAIN bowa : w \notin DOMAIN bowb

\* C20, as claimed: on an index built from two targets with no descriptor in
\* common, a query with the descriptors of either returns its id before the
\* other's.
C20_DisjointTargetRanksFirst ==
  BuiltFromDisjointPair => RanksBefore(1, 2) /\ RanksBefore(2, 1)

\* C20, amended: the target queried for comes before the other exactly when
\* some visual word holds a descriptor of it and none of the other, or it was
\* passed to build first; when all its words are also words of the other, both
\* score zero and come in the order of the build list.
C20_DisjointTargetRanksFirstIfOwnWord ==
  BuiltFromDisjointPair =>
    /\ RanksBefore(1, 2)
    /\ RanksBefore(2, 1) <=> HasOwnWord(2, 1)

C20_Witness ==
  /\ BuiltFromDisjointPair
  /\ vocabularyTree.config.size = 2
  /\ HasOwnWord(2, 1)
  /\ RanksBefore(2, 1)
  /\ RanksBefore(1, 2)
  /\ ~HasOwnWord(1, 2)

\* The domains of the tunables: a value outside, or a tunable the live
\* configuration no longer carries, violates them.
AtLeast(group, field, lo) == HasField(group, field) /\ group[field] >= lo

ViolatesDomain(cfg) ==
  \/ UnknownDetector(cfg.features)
  \/ ~AtLeast(cfg.features, "maxFeaturesPerFrame", 1)
  \/ ~AtLeast(cfg.vocabulary, "size", 50)
  \/ ~AtLeast(cfg.vocabulary, "topCandidates", 1)
  \/ ~AtLeast(cfg.tracking, "detectionInterval", 1)
  \/ ~AtLeast(cfg.tracking, "minMatches", 4)
  \/ ~AtLeast(cfg.tracking, "ratioThreshold", 50)
  \/ cfg.tracking.ratioThreshold > 100

\* C15: a configuration that violates a domain gets a non-empty error list
\* from validateConfig, and a tracker whose init() has completed never holds
\* one as its live configuration, whatever updateConfig was given.
C15_InvalidConfigRejected ==
  /\ (lastCall.op = "validateConfig" /\ ViolatesDomain(lastCall.config)) =>
       lastCall.errors # << >>
  /\ vocabularyTree # NullObject => ~ViolatesDomain(config)

\* The call recorded last is a detect on a frame that gave descriptors.
DetectedOnFeatures ==
  /\ lastCall.op = "detect"
  /\ lastCall.frame.extract = "ok"
  /\ lastCall.frame.count > 0

\* C13: once a vocabulary is built, detect runs matching and homography only
\* on the registered targets whose ids the vocabulary query returned for the
\* frame's descriptors, which are at most topCandidates, and not on the whole
\* registry.
C13_MatchesOnlyQueryCandidates ==
  (DetectedOnFeatures /\ vocabularyTree.vocabulary # << >>) =>
    /\ Range(lastCall.matched)
         \subseteq Range(query(vocabularyTree, lastCall.descriptors,
                               vocabularyTree.config.topCandidates))
    /\ Len(lastCall.matched) <= vocabularyTree.config.topCandidates

\* C14: after updateConfig(patch) the next operation uses the patched values
\* without a new init: detect matches and validates with the tracking group
\* of the live configuration (ratioThreshold, minMatches) and extracts with
\* its features group, and query cuts at the live topCandidates.
C14_PatchedValuesAreUsed ==
  /\ lastCall.op = "detect" =>
       lastCall.result = detect(lastCall.frame, targets, config.tracking)
  /\ featureDetector.config = config.features
  /\ \A descriptors \in QueryFrames :
       query(vocabularyTree, descriptors, vocabularyTree.config.topCandidates)
         = query(vocabularyTree, descriptors, config.vocabulary.topCandidates)

\* The sampled tick recorded last met a native fault: the frame capture threw
\* (detectTarget threw before any detection existed), or detect caught the
\* fault of the extraction.
NativeFaultTick ==
  /\ lastTick.detect
  /\ \/ lastTick.threw /\ lastTick.detection = NullObject
     \/ /\ lastTick.detection # NullObject
        /\ ~lastTick.detection.success
        /\ lastTick.detection.reason = "error"

\* C16: a native fault during the detection of a sampled frame (frame
\* capture, feature extraction, matching or homography) gives a Failure
\* result: the renderer is cleared and the callback is notified with the
\* Failure.
C16_NativeFaultIsFailure ==
  NativeFaultTick =>
    /\ lastTick.detection # NullObject
    /\ ~lastTick.detection.success
    /\ Len(lastTick.events) = 2
    /\ lastTick.events[1].op = "clearTarget"
    /\ lastTick.events[2].op = "callback"
    /\ lastTick.events[2].arg = lastTick.detection

\* C17: every native object allocated during detect, extractFeatures,
\* matchFeatures and computeHomography is released before the call ends,
\* except those handed back: after a detect that returns Failure no native
\* object allocated by the call is still live.
C17_FailureReleasesNativeObjects ==
  (lastCall.op = "detect" /\ ~lastCall.result.success) =>
    lastCall.live = << >>

\* The positions of the targets that qualify: descriptors, a homography that
\* was computed and passed validation, corners computed.
Qualifying(frame, targetList, trackingConfig) ==
  { i \in 1..Len(targetList) :
      /\ Len(targetList[i].features) > 0
      /\ computeHomography(frame.match[targetList[i].id].good, trackingConfig,
                           frame.match[targetList[i].id].H) # NULL
      /\ frame.match[targetList[i].id].corners }

\* goodMatchCount / targetFeatureCount of the target at i exceeds that of j.
ScoreAbove(frame, targetList, i, j) ==
  frame.match[targetList[i].id].good * Len(targetList[j].features)
    > frame.match[targetList[j].id].good * Len(targetList[i].features)

\* C18: on a frame with descriptors, detect returns Success for the
\* qualifying candidate of highest score goodMatchCount / targetFeatureCount,
\* the earliest in iteration order among equals, and Failure "No valid
\* detection" when no candidate qualifies.
C18_BestQualifyingCandidateWins ==
  DetectedOnFeatures =>
    LET Q == Qualifying(lastCall.frame, targets, featureDetector.trackingConfig)
    IN  IF Q = {} THEN lastCall.result = Failure("No valid detection")
        ELSE \E i \in Q :
               /\ \A j \in Q : ~ScoreAbove(lastCall.frame, targets, j, i)
               /\ \A j \in Q :
                    j < i => ScoreAbove(lastCall.frame, targets, i, j)
               /\ lastCall.result.success
               /\ lastCall.result.targetId = targets[i].id
               /\ lastCall.result.matches
                    = lastCall.frame.match[targets[i].id].good

\* Two candidates qualify with equal scores and the earlier one is returned.
C18_Witness ==
  /\ DetectedOnFeatures
  /\ Qualifying(lastCall.frame, targets, featureDetector.trackingConfig)
       = {1, 2}
  /\ ~ScoreAbove(lastCall.frame, targets, 1, 2)
  /\ ~ScoreAbove(lastCall.frame, targets, 2, 1)
  /\ lastCall.result.success
  /\ lastCall.result.targetId = targets[1].id

\* The places of the keypoints of a result.
Retained(result) == { result.keypoints[i].pt : i \in 1..Len(result.keypoints) }

\* C21: extractFeatures returns all N keypoints when N <= maxFeaturesPerFrame;
\* when N is larger it returns exactly maxFeaturesPerFrame keypoints, every
\* retained keypoint has a response at least that of every discarded one,
\* among equal responses the lower original index is retained, and
\* descriptor row i of the result is the descriptor of retained keypoint i.
C21_LimitKeepsStrongest ==
  lastCall.op = "extractFeatures" =>
    LET max == featureDetector.config.maxFeaturesPerFrame
        kp == lastCall.keypoints
        res == lastCall.result
        N == Len(kp)
    IN  /\ N <= max => res.count = N /\ res.keypoints = kp
        /\ N > max =>
             /\ res.count = max
             /\ Len(res.keypoints) = max
             /\ Cardinality(Retained(res)) = max
             /\ \A i \in Retained(res), j \in (1..N) \ Retained(res) :
                  /\ kp[i].response >= kp[j].response
                  /\ kp[i].response = kp[j].response => i < j
        /\ Len(res.descriptors) = res.count
        /\ \A i \in 1..res.count :
             /\ res.keypoints[i] = kp[res.keypoints[i].pt]
             /\ res.descriptors[i] = lastCall.descriptors[res.keypoints[i].pt]

\* More keypoints than the limit, with a discarded keypoint that comes before
\* a retained one and another that equals a retained one in response.
C21_Witness ==
  /\ lastCall.op = "extractFeatures"
  /\ Len(lastCall.keypoints) > featureDetector.config.maxFeaturesPerFrame
  /\ \E i \in Retained(lastCall.result),
        j \in (1..Len(lastCall.keypoints)) \ Retained(lastCall.result) : j < i
  /\ \E i \in Retained(lastCall.result),
        j \in (1..Len(lastCall.keypoints)) \ Retained(lastCall.result) :
       lastCall.keypoints[i].response = lastCall.keypoints[j].response

\* The centers kmeansClustering holds after the given number of passes.
CentersAfter(descriptors, k, passes) ==
  KMeansRepeat(descriptors, SubSeq(descriptors, 1, Min2(k, Len(descriptors))),
               passes)

\* The members of center i in a pass that starts with the given centers.
Members(descriptors, clusters, i) ==
  Assigned(descriptors,
           Materialize([d \in 1..Len(descriptors) |->
                          findNearestCluster(descriptors[d], clusters)]),
           i)

\* Bit b of a byte, and the byte whose bits are those set in at least half of
\* the given bytes.
BitOf(v, b) == (v \div (2 ^ b)) % 2
MajorityByte(bytes) ==
  SumSeq([b \in 1..8 |->
            IF 2 * SumSeq([i \in 1..Len(bytes) |-> BitOf(bytes[i], b - 1)])
                 >= Len(bytes)
            THEN 2 ^ (b - 1) ELSE 0])
Majority(descriptors) ==
  [c \in 1..Len(descriptors[1]) |->
     MajorityByte([i \in 1..Len(descriptors) |-> descriptors[i][c]])]

\* C22: in every clustering pass of a build, each center with at least one
\* assigned descriptor becomes the per-bit majority of its members, a center
\* with none is left unchanged, and the codebook keeps min(K, pool size)
\* centers through all passes.
C22_CentersArePerBitMajority ==
  lastCall.op = "build" =>
    LET pool == Flatten([i \in 1..Len(lastCall.targets) |->
                           lastCall.targets[i].features])
        k == vocabularyTree.config.size
    IN  pool # << >> =>
          \A p \in 0..(KMeansIterations - 1) :
            LET old == CentersAfter(pool, k, p)
                new == CentersAfter(pool, k, p + 1)
            IN  /\ Len(new) = Min2(k, Len(pool))
                /\ \A i \in 1..Len(new) :
                     LET members == Members(pool, old, i)
                     IN  new[i] = IF members # << >> THEN Majority(members)
                                  ELSE old[i]

\* The bag of words the index holds for a registered id is that of its
\* features against the codebook.
BowIsCurrent(tree, targetList, id) ==
  /\ MapHas(tree.targetFeatures, id)
  /\ tree.targetFeatures[IndexOf(tree.targetFeatures, id)].bow =
       computeBagOfWords(targetList[IndexOf(targetList, id)].features,
                         tree.vocabulary)

\* The last of two overlapping addTarget calls resolves: the other call
\* resolved before it and nothing was removed since.
LastOfTwoResolves ==
  /\ Cardinality(inflight) = 1
  /\ addResult # NullObject
  /\ addResult.status = "resolved"
  /\ addResult.id \notin inflight
  /\ removed = {}
  /\ Settles("resolved")

\* C23: when addTarget is called for two different targets that await their
\* images at the same time and both calls resolve, the registry holds both
\* targets and the vocabulary is the result of the last rebuild, computed in
\* one piece from a registry that holds both.
C23_OverlappingAddsBothIndexed ==
  [][ LastOfTwoResolves =>
        /\ {addResult.id, addResult'.id} \subseteq MapKeys(targets')
        /\ Pool(targets') # << >> =>
             /\ vocabularyTree'.vocabulary =
                  kmeansClustering(Pool(targets'), vocabularyTree.config.size)
             /\ BowIsCurrent(vocabularyTree', targets', addResult.id)
             /\ BowIsCurrent(vocabularyTree', targets', addResult'.id)
        /\ Pool(targets') = << >> => vocabularyTree' = vocabularyTree
    ]_vars

\* Both overlapping calls have resolved, with descriptors, and the codebook
\* is built.
C23_Witness ==
  /\ inflight = {}
  /\ removed = {}
  /\ addResult # NullObject
  /\ addResult.status = "resolved"
  /\ MapKeys(targets) = Ids
  /\ \A i \in 1..Len(targets) : Len(targets[i].features) > 0
  /\ Len(vocabularyTree.vocabulary) = 2

\* C27: if removeTarget(id) is called while an addTarget call for the same id
\* awaits its image, id is not in the registry once the call has settled.
C27_RemovalNotUndone ==
  [][ \A id \in inflight \cap removed :
        id \notin inflight' => ~MapHas(targets', id)
    ]_vars

\* No renderer work is pending: no video load, no playback start, no fade.
RendererSettled ==
  /\ arRenderer.loading = << >>
  /\ arRenderer.playing = 0
  /\ arRenderer.fading = 0

\* C24: after a Failure has been handed to the renderer (clearTarget was the
\* last call), no overlay plane is in the scene once the pending renderer
\* work has settled, also when clearTarget ran while the setTarget of an
\* earlier Success was awaiting its video.
C24_NoOverlayAfterFailure ==
  (arRenderer.calls > 0 /\ arRenderer.currentTarget = NULL /\ RendererSettled)
    => arRenderer.contentPlane = NullObject

\* C25: across any sequence of start() and stop() calls at most one
\* processFrame callback is pending with the host, and no second one is
\* suspended in a detection besides it, so that the frame counter advances
\* once per host frame.
C25_OneFrameCallbackPending ==
  /\ pending <= 1
  /\ pending + awaiting <= 1

\* C26: updateConfig(patch) leaves every tunable the patch does not name as
\* it was, nested ones included: no field of a group loses its value when a
\* patch sets another field of the group, and the frame loop goes on reading
\* a detection interval.
C26_PatchKeepsOtherTunables ==
  [][ /\ \A g \in DOMAIN config : DOMAIN config[g] \subseteq DOMAIN config'[g]
      /\ lastTick'.tick > lastTick.tick => lastTick'.interval >= 1
    ]_vars

\* No operation of the application is in progress.
AppIdle ==
  /\ app.caching = {}
  /\ app.deleting = {}
  /\ app.clearing = 0
  /\ inflight = {}

\* C28: whenever no application operation is in progress, every id in the
\* tracker's registry is in the application's registry as well: after the
\* application has removed a target or cleared the cached data, also when
\* the delete in the persistent store failed, the tracker no longer holds it.
C28_TrackerHoldsOnlyAppTargets ==
  AppIdle => MapKeys(targets) \subseteq app.targets

\* C29: currentTarget is null or the id of a target in the registry, and it
\* is null after a sampled frame that did not give a Success.
C29_CurrentTargetIsRegistered ==
  /\ currentTarget = NULL \/ MapHas(targets, currentTarget)
  /\ (/\ lastTick.detect
      /\ ~(lastTick.detection # NullObject /\ lastTick.detection.success))
       => currentTarget = NULL

\* C30: every Success that detect hands on has at least as many matches as
\* the minMatches of the live configuration at the time of the frame, hence
\* at least 4, a score above 0, and the id of a target that is in the
\* registry with descriptors, after any sequence of configuration patches.
C30_SuccessMeetsLiveMinMatches ==
  [][ (/\ lastCall' # lastCall
       /\ lastCall'.op = "detect"
       /\ lastCall'.result.success) =>
        /\ HasField(config.tracking, "minMatches")
        /\ lastCall'.result.matches >= config.tracking.minMatches
        /\ lastCall'.result.matches >= 4
        /\ lastCall'.result.score[1] > 0
        /\ MapHas(targets, lastCall'.result.targetId)
        /\ Len(targets[IndexOf(targets, lastCall'.result.targetId)].features) > 0
    ]_vars

TypeOK ==
  /\ isTracking \in BOOLEAN
  /\ frameCount \in 0..MaxScenarioTicks
  /\ pending \in 0..MaxLoops
  /\ awaiting \in 0..MaxLoops
  /\ detectionCallback \in Callbacks \cup {NULL}
  /\ currentTarget \in Ids \cup {NULL}
  /\ inflight \subseteq Ids
  /\ removed \subseteq Ids

====
